---- MODULE Spec2Model ----
(***************************************************************************)
(* The URL shortener of fx-profiler-server: the token generator, the GCS   *)
(* storage abstraction with its real and mock backends, the shorten and    *)
(* expand logic, and the three routes that call them.                      *)
(*                                                                         *)
(* The routes are modelled with config.gcsShortening set, the setting under *)
(* which they call shortenUrlGcs and expandUrlGcs. The store answers every  *)
(* read; an upload may fail.                                                *)
(*                                                                         *)
(* Strings are sequences of one-character strings, so that split,     *)
(* length, startsWith, slice and the base32 / base64 conversions are       *)
(* computed rather than assumed.                                           *)
(***************************************************************************)
EXTENDS Integers, Sequences, FiniteSets, Bags

(* ------------------------------ bounds --------------------------------- *)

\* Number of requests and direct storage calls the clients make.
MaxReq == 3

\* The random source yields buffers numbered 0..MaxSeed.
MaxSeed == 1

\* Candidate final segments have lengths 0, 5 and 39-MaxPad .. 39+MaxPad.
MaxPad == 1

(* --------------------------- string helpers ---------------------------- *)

\* The position of the k-th occurrence of sep in s; 0 for k = 0 and
\* Len(s) + 1 past the last occurrence.
SepPos(s, sep, k) ==
    LET at == {i \in 1..Len(s) : s[i] = sep}
    IN  IF k = 0 THEN 0
        ELSE IF k > Cardinality(at) THEN Len(s) + 1
        ELSE CHOOSE i \in at : Cardinality({j \in at : j <= i}) = k

\* String.prototype.split(sep): the pieces of s between occurrences of sep.
\* Never empty: a string without sep yields the one piece s.
Split(s, sep) ==
    [k \in 1..(Cardinality({i \in 1..Len(s) : s[i] = sep}) + 1) |->
        SubSeq(s, SepPos(s, sep, k - 1) + 1, SepPos(s, sep, k) - 1)]

\* Array.prototype.pop() on the result of split: its last element.
Pop(arr) == arr[Len(arr)]

\* String.prototype.startsWith
StartsWith(s, p) == Len(s) >= Len(p) /\ SubSeq(s, 1, Len(p)) = p

\* String.prototype.slice(n)
Slice(s, n) == SubSeq(s, n + 1, Len(s))

\* n copies of character c
Repeat(c, n) == [i \in 1..n |-> c]

Pow2(n) == IF n = 0 THEN 1 ELSE IF n = 1 THEN 2 ELSE IF n = 2 THEN 4
           ELSE IF n = 3 THEN 8 ELSE IF n = 4 THEN 16 ELSE IF n = 5 THEN 32
           ELSE IF n = 6 THEN 64 ELSE 128

(* --------------------------- token generator --------------------------- *)

\* The 32-character alphabet of the base32 encoder.
Base32Alphabet ==
    << "A","B","C","D","E","F","G","H","I","J","K","L","M","N","O","P",
       "Q","R","S","T","U","V","W","X","Y","Z","2","3","4","5","6","7" >>

\* Bit j (0-based, most significant first) of a byte buffer; 0 past its end.
BitOf(buf, j) ==
    IF j >= 8 * Len(buf) THEN 0
    ELSE (buf[(j \div 8) + 1] \div Pow2(7 - (j % 8))) % 2

\* Base32 without padding: one character per started group of 5 bits.
toBase32(buf) ==
    [i \in 1..((8 * Len(buf) + 4) \div 5) |->
        Base32Alphabet[ 1 + 16 * BitOf(buf, 5 * (i - 1))
                          +  8 * BitOf(buf, 5 * (i - 1) + 1)
                          +  4 * BitOf(buf, 5 * (i - 1) + 2)
                          +  2 * BitOf(buf, 5 * (i - 1) + 3)
                          +      BitOf(buf, 5 * (i - 1) + 4) ]]

\* crypto.randomBytes(n): the n bytes the random source yields for a seed.
randomBytes(n, seed) == [i \in 1..n |-> (seed * 151 + i * 37 * seed + seed * 255) % 256]

Seeds == 0..MaxSeed

generateTokenForProfile20(seed) == toBase32(randomBytes(20, seed))

\* generateTokenForProfile: 24 random bytes, base32-encoded.
generateTokenForProfile(seed) == toBase32(randomBytes(24, seed))

(* ------------------------ configuration, create ----------------------- *)

\* Printable ASCII, codes 32..126, as Buffer.toString() renders the bytes
\* (the grave accent, code 96, stands as a question mark).
AsciiTable ==
    <<
       " ","!","\"","#","$","%","&","'","(",")","*","+",",","-",".","/",
       "0","1","2","3","4","5","6","7","8","9",":",";","<","=",">","?",
       "@","A","B","C","D","E","F","G","H","I","J","K","L","M","N","O",
       "P","Q","R","S","T","U","V","W","X","Y","Z","[","\\","]","^","_",
       "?","a","b","c","d","e","f","g","h","i","j","k","l","m","n","o",
       "p","q","r","s","t","u","v","w","x","y","z","{","|","}","~" >>

\* Buffer.toString() on one byte.
CharOf(b) == IF b >= 32 /\ b <= 126 THEN AsciiTable[b - 31] ELSE "?"

Base64Alphabet ==
    <<
       "A","B","C","D","E","F","G","H","I","J","K","L","M","N","O","P",
       "Q","R","S","T","U","V","W","X","Y","Z","a","b","c","d","e","f",
       "g","h","i","j","k","l","m","n","o","p","q","r","s","t","u","v",
       "w","x","y","z","0","1","2","3","4","5","6","7","8","9","+","/" >>

IsBase64Char(c) == \E i \in 1..64 : Base64Alphabet[i] = c

Base64Value(c) == (CHOOSE i \in 1..64 : Base64Alphabet[i] = c) - 1

\* The leading run of base64 characters of s (decoding stops at the padding).
RECURSIVE Base64Body(_)
Base64Body(s) ==
    IF s = <<>> \/ ~IsBase64Char(Head(s)) THEN <<>>
    ELSE <<Head(s)>> \o Base64Body(Tail(s))

\* Bit j (0-based) of the 6-bit groups of a base64 text.
SextetBit(s, j) == (Base64Value(s[(j \div 6) + 1]) \div Pow2(5 - (j % 6))) % 2

\* Buffer.from(s, base64): every complete byte of the 6-bit groups.
Base64Decode(s) ==
    LET body == Base64Body(s)
    IN  [i \in 1..((6 * Len(body)) \div 8) |->
            128 * SextetBit(body, 8 * (i - 1))
          +  64 * SextetBit(body, 8 * (i - 1) + 1)
          +  32 * SextetBit(body, 8 * (i - 1) + 2)
          +  16 * SextetBit(body, 8 * (i - 1) + 3)
          +   8 * SextetBit(body, 8 * (i - 1) + 4)
          +   4 * SextetBit(body, 8 * (i - 1) + 5)
          +   2 * SextetBit(body, 8 * (i - 1) + 6)
          +       SextetBit(body, 8 * (i - 1) + 7) ]

\* Buffer.toString()
BufferToString(buf) == [i \in 1..Len(buf) |-> CharOf(buf[i])]

\* JSON.parse succeeds on the credential texts the configurations use
\* (the empty object) and throws a SyntaxError on the others.
JsonParses(text) == text = << "{", "}" >>

Base64Prefix == << "b","a","s","e","6","4",":" >>

\* The values of config.googleAuthJson.
AuthJsonValues ==
    { <<>>,
      << "{", "}" >>,
      << "{" >>,
      Base64Prefix \o << "e","3","0","=" >>,
      Base64Prefix \o << "e","w","=","=" >> }

\* GcsConfig values.
Configs ==
    [ googleAuthenticationFilePath : {"MOCKED", "key.json"},
      googleAuthJson : AuthJsonValues,
      gcsBucket : {"", "profiles"} ]

NoCredentials == [from |-> "none", value |-> <<>>]

Thrown(msg) == [kind |-> "throw", error |-> msg, credentials |-> NoCredentials]

\* new Storage({ credentials: JSON.parse(text) })
StorageFromJson(text) ==
    IF JsonParses(text)
    THEN [kind |-> "real", error |-> "",
          credentials |-> [from |-> "credentials", value |-> text]]
    ELSE Thrown("SyntaxError")

createIgnoringInlineJson(cfg) ==
    IF cfg.googleAuthenticationFilePath = "MOCKED"
    THEN [kind |-> "mock", error |-> "", credentials |-> NoCredentials]
    ELSE IF cfg.gcsBucket = ""
    THEN Thrown("The bucket name should not be empty")
    ELSE [kind |-> "real", error |-> "",
          credentials |-> [from |-> "keyFilename", value |-> <<>>]]

\* create(config): which backend, built from which credentials.
create(cfg) ==
    IF cfg.googleAuthenticationFilePath = "MOCKED"
    THEN [kind |-> "mock", error |-> "", credentials |-> NoCredentials]
    ELSE IF cfg.gcsBucket = ""
    THEN Thrown("The bucket name should not be empty")
    ELSE IF cfg.googleAuthJson # <<>>
    THEN IF StartsWith(cfg.googleAuthJson, Base64Prefix)
         THEN StorageFromJson(BufferToString(Base64Decode(Slice(cfg.googleAuthJson, 7))))
         ELSE StorageFromJson(cfg.googleAuthJson)
    ELSE [kind |-> "real", error |-> "",
          credentials |-> [from |-> "keyFilename", value |-> <<>>]]

(* ------------------------------ storage -------------------------------- *)

\* The bucket is a set of <<object name, content>> pairs, one per name.
Stored(b, key) == \E p \in b : p[1] = key

ContentOf(b, key) == (CHOOSE p \in b : p[1] = key)[2]

Put(b, key, content) == {p \in b : p[1] # key} \cup {<<key, content>>}

Remove(b, key) == {p \in b : p[1] # key}

NoUpload == [status |-> "none", key |-> <<>>, content |-> <<>>]

\* RealGcsStorage.getWriteStreamForFile, write(chunk), end(): a non-resumable
\* upload that the store commits or rejects later.
RealWriteStream(key, chunk) == [status |-> "pending", key |-> key, content |-> chunk]

\* MockGcsStorage.getWriteStreamForFile, write(chunk), end(): the sink calls
\* back at once and keeps nothing.
MockWriteStream(key, chunk) == [status |-> "discarded", key |-> key, content |-> chunk]

getWriteStreamForFile(kind, key, chunk) ==
    IF kind = "mock" THEN MockWriteStream(key, chunk) ELSE RealWriteStream(key, chunk)

\* The store committing an upload: the object is created or replaced.
CommitIfAbsent(b, key, content) == IF Stored(b, key) THEN b ELSE Put(b, key, content)

Commit(b, key, content) == Put(b, key, content)

RealReadFileEmptyWhenMissing(b, key) ==
    IF Stored(b, key)
    THEN [ok |-> TRUE, data |-> ContentOf(b, key), error |-> ""]
    ELSE [ok |-> TRUE, data |-> <<>>, error |-> ""]

\* RealGcsStorage.readFile: file.download() rejects when there is no object.
RealReadFile(b, key) ==
    IF Stored(b, key)
    THEN [ok |-> TRUE, data |-> ContentOf(b, key), error |-> ""]
    ELSE [ok |-> FALSE, data |-> <<>>, error |-> "NotFound"]

MockReadFilePersisted(written, key) ==
    IF \E u \in written : u.status = "discarded" /\ u.key = key
    THEN [ok |-> TRUE, error |-> "",
          data |-> (CHOOSE u \in written :
                        u.status = "discarded" /\ u.key = key).content]
    ELSE [ok |-> TRUE, data |-> <<>>, error |-> ""]

\* MockGcsStorage.readFile: Buffer.from(empty string), whatever was written.
MockReadFile(written, key) == [ok |-> TRUE, data |-> <<>>, error |-> ""]

readFile(kind, b, written, key) ==
    IF kind = "mock" THEN MockReadFile(written, key) ELSE RealReadFile(b, key)

\* RealGcsStorage.deleteFile: file.delete() rejects when there is no object.
RealDeleteFile(b, key) == IF Stored(b, key) THEN "ok" ELSE "NotFound"

\* MockGcsStorage.deleteFile
MockDeleteFile(key) == "ok"

\* RealGcsStorage.ping, given the answer of bucket.exists()
RealPing(exists) == IF exists THEN "ok" ELSE "The bucket doesn't exist"

\* MockGcsStorage.ping
MockPing == "ok"

(* --------------------------- shorten / expand --------------------------- *)

UrlSuffix == << ".","u","r","l" >>

\* The object name of a token: the token followed by .url
FileName(token) == token \o UrlSuffix

ShortUrlPrefix ==
    <<
       "h","t","t","p","s",":","/","/","p","r","o","f","i","l","e","r",
       "-","d","o","t","-","u","n","i","t","y","-","e","n","g","-","a",
       "r","c","h","-","d","e","v",".","u","w",".","r",".","a","p","p",
       "s","p","o","t",".","c","o","m","/","s","/" >>

\* The short URL shortenUrlGcs composes for a token.
ShortUrl(token) == ShortUrlPrefix \o token

\* The length expandUrlGcs demands of a token.
TokenLength == 39

\* urlToExpand.split("/").pop()
ExtractToken(urlToExpand) == Pop(Split(urlToExpand, "/"))

ValidTokenAtMost(token) == Len(token) <= TokenLength

\* The negation of the guard of the throw in expandUrlGcs.
ValidToken(token) == Len(token) = TokenLength

(* ------------------------------- inputs -------------------------------- *)

ExampleUrl ==
    <<
       "h","t","t","p","s",":","/","/","e","x","a","m","p","l","e",".",
       "c","o","m","/","r","e","p","o","r","t","/","1","2","3" >>

ProfilerUrl ==
    <<
       "h","t","t","p","s",":","/","/","p","r","o","f","i","l","e","r",
       ".","f","i","r","e","f","o","x",".","c","o","m","/" >>

\* The longUrl values of POST /shorten bodies; the empty one is a missing property.
LongUrls == {ExampleUrl, ProfilerUrl, <<>>}

\* The token the generator returns for each outcome of the random source.
TokenOf == [seed \in Seeds |-> generateTokenForProfile(seed)]

Tokens == {TokenOf[seed] : seed \in Seeds}

SegLens == {0, 5} \cup ((TokenLength - MaxPad)..(TokenLength + MaxPad))

Segments == {Repeat("a", n) : n \in SegLens}

\* The shortUrl values of POST /expand bodies.
PostExpandInputs ==
    {<<>>, Repeat("a", 5)} \cup {ShortUrlPrefix \o seg : seg \in Segments \cup Tokens}

\* The request URLs of GET /s/...
GetSInputs == {<< "/","s","/" >> \o TokenOf[0]}

Keys == {FileName(t) : t \in Tokens}

\* The token expandUrlGcs extracts from each input.
TokenIn == [url \in PostExpandInputs \cup GetSInputs |-> ExtractToken(url)]

(* ------------------------------- state --------------------------------- *)

VARIABLES
    config,     \* the process-wide GcsConfig
    toArrive,   \* how many requests the clients still send
    req,        \* the bag of requests: route, position, input, response, upload
    bucket,     \* the objects of the GCS bucket
    storeLog    \* the commits and deletions the bucket has applied, in order

vars == <<config, toArrive, req, bucket, storeLog>>

\* A request that has just arrived. after: the long URLs for which shorten had
\* returned the input of an expand when that expand started; epoch: the number
\* of commits and deletions of its object applied when its read settled.
NewReq ==
    [route |-> "none", pc |-> "new", input |-> <<>>, storage |-> "none",
     token |-> <<>>, body |-> <<>>, error |-> "", reads |-> 0, epoch |-> 0,
     after |-> {}, upload |-> NoUpload, credentials |-> NoCredentials]

Requests == BagToSet(req)

Replace(old, new) == (req (-) SetToBag({old})) (+) SetToBag({new})

\* The configurations the service is deployed with: the mock backend and the
\* real backend with a credentials file.
DeployedConfigs ==
    {c \in Configs : c.googleAuthJson = <<>> /\ c.gcsBucket = "profiles"}

InitWith(cfgs, n) ==
    /\ config \in cfgs
    /\ toArrive = n
    /\ req = EmptyBag
    /\ bucket = {}
    /\ storeLog = <<>>

Init == InitWith(DeployedConfigs, MaxReq)

\* Every configuration, one request: the domain of create.
InitCreate == InitWith(Configs, 1)

Arrive(new) ==
    /\ toArrive > 0
    /\ toArrive' = toArrive - 1
    /\ req' = req (+) SetToBag({new})

Fails(route, input, kind, msg) ==
    [NewReq EXCEPT !.route = route, !.pc = "failed", !.input = input,
                   !.storage = kind, !.error = msg]

\* The long URLs for which shorten has returned shortUrl so far.
ShortenedTo(shortUrl) ==
    {q.input : q \in {x \in Requests :
         x.route = "POST /shorten" /\ x.pc = "responded" /\ x.body = shortUrl}}

\* The number of commits and deletions of an object the bucket has applied.
Epoch(key) == Cardinality({i \in 1..Len(storeLog) : storeLog[i].key = key})

\* Everything handed to a write stream so far.
Written == {q.upload : q \in {x \in Requests : x.upload.status # "none"}}

(* ------------------------------ POST /shorten --------------------------- *)

\* The handler up to the first suspension: body checks, create(config), and
\* shortenUrlGcs up to its await of generateTokenForProfile.
PostShorten(longUrl) ==
    /\ LET storage == create(config)
       IN  Arrive(IF longUrl = <<>>
                  THEN Fails("POST /shorten", longUrl, "none", "BadRequest")
                  ELSE IF storage.kind = "throw"
                  THEN Fails("POST /shorten", longUrl, "throw", storage.error)
                  ELSE [NewReq EXCEPT !.route = "POST /shorten", !.pc = "awaitToken",
                                      !.input = longUrl, !.storage = storage.kind,
                                      !.credentials = storage.credentials])
    /\ UNCHANGED <<config, bucket, storeLog>>

\* shortenUrlGcs from the token on, and the handler to its response: open the
\* write stream, write, end, compose the short URL, return it, answer.
ShortenResume(r, seed) ==
    /\ r \in Requests
    /\ r.pc = "awaitToken"
    /\ LET token == TokenOf[seed]
       IN  req' = Replace(r, [r EXCEPT
                 !.upload = getWriteStreamForFile(r.storage, FileName(token), r.input),
                 !.token = token,
                 !.body = ShortUrl(token),
                 !.pc = "responded"])
    /\ UNCHANGED <<config, toArrive, bucket, storeLog>>

\* The store commits a pending upload: the stream would emit finish.
UploadFinish(r) ==
    /\ r \in Requests
    /\ r.upload.status = "pending"
    /\ req' = Replace(r, [r EXCEPT !.upload.status = "committed"])
    /\ bucket' = Commit(bucket, r.upload.key, r.upload.content)
    /\ storeLog' = Append(storeLog,
                          [op |-> "commit", key |-> r.upload.key,
                           content |-> r.upload.content])
    /\ UNCHANGED <<config, toArrive>>

\* The upload fails (transport, authentication): the stream would emit error;
\* a non-resumable upload that fails leaves no object.
UploadError(r) ==
    /\ r \in Requests
    /\ r.upload.status = "pending"
    /\ req' = Replace(r, [r EXCEPT !.upload.status = "failed"])
    /\ UNCHANGED <<config, toArrive, bucket, storeLog>>

(* ------------------------- POST /expand, GET /s ------------------------- *)

\* expandUrlGcs up to its await of storage.readFile.
ExpandCall(route, storage, urlToExpand) ==
    LET token == TokenIn[urlToExpand]
    IN  IF ~ValidToken(token)
        THEN [Fails(route, urlToExpand, storage.kind, "Invalid URL") EXCEPT
                  !.credentials = storage.credentials,
                  !.after = ShortenedTo(urlToExpand)]
        ELSE [NewReq EXCEPT !.route = route, !.pc = "awaitRead",
                            !.input = urlToExpand, !.storage = storage.kind,
                            !.credentials = storage.credentials,
                            !.token = token, !.reads = 1,
                            !.after = ShortenedTo(urlToExpand)]

\* POST /expand up to the first suspension.
PostExpand(shortUrl) ==
    /\ LET storage == create(config)
       IN  Arrive(IF shortUrl = <<>>
                  THEN Fails("POST /expand", shortUrl, "none", "BadRequest")
                  ELSE IF storage.kind = "throw"
                  THEN Fails("POST /expand", shortUrl, "throw", storage.error)
                  ELSE ExpandCall("POST /expand", storage, shortUrl))
    /\ UNCHANGED <<config, bucket, storeLog>>

\* GET /s/... up to the first suspension.
GetS(url) ==
    /\ LET storage == create(config)
       IN  Arrive(IF storage.kind = "throw"
                  THEN Fails("GET /s", url, "throw", storage.error)
                  ELSE ExpandCall("GET /s", storage, url))
    /\ UNCHANGED <<config, bucket, storeLog>>

ExpandResumeConsuming(r) ==
    /\ r \in Requests
    /\ r.pc = "awaitRead"
    /\ LET key  == FileName(r.token)
           file == readFile(r.storage, bucket, Written, key)
       IN  /\ req' = Replace(r,
                 IF file.ok
                 THEN [r EXCEPT !.pc = "responded", !.body = file.data,
                                !.epoch = Epoch(key)]
                 ELSE [r EXCEPT !.pc = "failed", !.error = file.error,
                                !.epoch = Epoch(key)])
           /\ bucket' = Remove(bucket, key)
    /\ UNCHANGED <<config, toArrive, storeLog>>

\* expandUrlGcs from the settling of readFile on, and the handler to its
\* response (the body of POST /expand, the redirect target of GET /s).
ExpandResume(r) ==
    /\ r \in Requests
    /\ r.pc = "awaitRead"
    /\ LET key  == FileName(r.token)
           file == readFile(r.storage, bucket, Written, key)
       IN  req' = Replace(r,
               IF file.ok
               THEN [r EXCEPT !.pc = "responded", !.body = file.data,
                              !.epoch = Epoch(key)]
               ELSE [r EXCEPT !.pc = "failed", !.error = file.error,
                              !.epoch = Epoch(key)])
    /\ UNCHANGED <<config, toArrive, bucket, storeLog>>

(* ------------------------- direct storage calls ------------------------- *)

\* storage.deleteFile(key) on the storage create(config) returns.
DeleteFile(key) ==
    /\ create(config).kind # "throw"
    /\ LET kind == create(config).kind
           outcome == IF kind = "mock" THEN MockDeleteFile(key)
                      ELSE RealDeleteFile(bucket, key)
       IN  /\ Arrive([NewReq EXCEPT !.route = "deleteFile", !.input = key,
                         !.storage = kind,
                         !.credentials = create(config).credentials,
                         !.pc = IF outcome = "ok" THEN "responded" ELSE "failed",
                         !.error = IF outcome = "ok" THEN "" ELSE outcome])
           /\ bucket' = IF kind = "mock" THEN bucket ELSE Remove(bucket, key)
           /\ storeLog' = IF kind = "real" /\ Stored(bucket, key)
                          THEN Append(storeLog,
                                      [op |-> "delete", key |-> key, content |-> <<>>])
                          ELSE storeLog
    /\ UNCHANGED config

\* storage.ping() on the storage create(config) returns.
Ping(exists) ==
    /\ create(config).kind # "throw"
    /\ LET kind == create(config).kind
           outcome == IF kind = "mock" THEN MockPing ELSE RealPing(exists)
       IN  Arrive([NewReq EXCEPT !.route = "ping", !.storage = kind,
                      !.credentials = create(config).credentials,
                      !.pc = IF outcome = "ok" THEN "responded" ELSE "failed",
                      !.error = IF outcome = "ok" THEN "" ELSE outcome])
    /\ UNCHANGED <<config, bucket, storeLog>>

Next ==
    \/ \E longUrl \in LongUrls : PostShorten(longUrl)
    \/ \E r \in Requests, seed \in Seeds : ShortenResume(r, seed)
    \/ \E r \in Requests : UploadFinish(r)
    \/ \E r \in Requests : UploadError(r)
    \/ \E shortUrl \in PostExpandInputs : PostExpand(shortUrl)
    \/ \E url \in GetSInputs : GetS(url)
    \/ \E r \in Requests : ExpandResume(r)
    \/ \E key \in Keys : DeleteFile(key)
    \/ \E exists \in BOOLEAN : Ping(exists)

Spec == Init /\ [][Next]_vars

SpecCreate == InitCreate /\ [][Next]_vars

(* ------------------------------- claims -------------------------------- *)

IsShorten(r) == r.route = "POST /shorten"

IsExpand(r) == r.route \in {"POST /expand", "GET /s"}

Settled(r) == r.pc \in {"responded", "failed"}

\* expandUrlGcs was entered: the route passed its own checks and create(config).
Entered(r) == r.storage \in {"real", "mock"}

\* The length of what follows the last slash of s (of s itself without one).
FinalSegmentLen(s) ==
    Len(s) - (IF \E i \in 1..Len(s) : s[i] = "/"
              THEN CHOOSE i \in 1..Len(s) :
                       s[i] = "/" /\ \A j \in (i + 1)..Len(s) : s[j] # "/"
              ELSE 0)

\* No write stream has been opened for the object.
NeverWritten(key) == \A q \in Requests : q.upload.status = "none" \/ q.upload.key # key

\* C1 (as claimed): on the real backend an expand that starts after shorten
\* has returned its input as the short URL of u answers with exactly u.
C1_RoundTrip ==
    \A e \in Requests :
        (IsExpand(e) /\ e.storage = "real" /\ Settled(e)) =>
            \A u \in e.after : e.pc = "responded" /\ e.body = u

\* C2 (as claimed): when shorten has returned its short URL, the write of the
\* object has committed or failed; it is never still pending.
C2_WriteSettledBeforeReturn ==
    \A q \in Requests :
        (IsShorten(q) /\ q.pc = "responded") => q.upload.status # "pending"

\* C3 (as claimed): a shorten whose store write fails answers with an error
\* and never with a short URL.
C3_FailedWriteSurfaces ==
    \A q \in Requests :
        (IsShorten(q) /\ q.upload.status = "failed") =>
            q.pc = "failed" /\ q.body = <<>>

\* C4: an expand whose input ends in a segment of length other than 39 fails
\* with the invalid-URL error and calls readFile not once.
C4_WrongLengthRejectedWithoutRead ==
    \A e \in Requests :
        (IsExpand(e) /\ Entered(e) /\ FinalSegmentLen(e.input) # 39) =>
            /\ e.pc = "failed"
            /\ e.error = "Invalid URL"
            /\ e.reads = 0
            /\ e.body = <<>>

\* C4 witness: a too short, a too long and an empty final segment have all
\* been rejected.
C4_Witness ==
    /\ \E e \in Requests : IsExpand(e) /\ e.error = "Invalid URL"
                            /\ FinalSegmentLen(e.input) = 38
    /\ \E e \in Requests : IsExpand(e) /\ e.error = "Invalid URL"
                            /\ FinalSegmentLen(e.input) = 40
    /\ \E e \in Requests : IsExpand(e) /\ e.error = "Invalid URL"
                            /\ FinalSegmentLen(e.input) = 0 /\ e.input # <<>>

\* C5 (as claimed): for a 39-character token whose object was never written,
\* expand fails with NotFound, on either backend.
C5_NeverWrittenIsNotFound ==
    \A e \in Requests :
        (IsExpand(e) /\ Entered(e) /\ Settled(e) /\ Len(e.token) = 39
           /\ NeverWritten(FileName(e.token))) =>
            e.pc = "failed" /\ e.error = "NotFound" /\ e.body = <<>>

\* C5 (amended): for a 39-character token whose object was never written,
\* expand on the real backend fails with the NotFound error of readFile and
\* returns no long URL; on the mock backend it returns the empty string.
C5_NeverWrittenByBackend ==
    \A e \in Requests :
        (IsExpand(e) /\ Entered(e) /\ Settled(e) /\ Len(e.token) = 39
           /\ NeverWritten(FileName(e.token))) =>
            IF e.storage = "real"
            THEN e.pc = "failed" /\ e.error = "NotFound" /\ e.body = <<>>
            ELSE e.pc = "responded" /\ e.error = "" /\ e.body = <<>>

\* C5 witness: the real backend has refused a well-formed token never written.
C5_Witness ==
    \E e \in Requests :
        /\ IsExpand(e) /\ e.storage = "real" /\ Len(e.token) = 39
        /\ NeverWritten(FileName(e.token))
        /\ e.pc = "failed" /\ e.error = "NotFound"

\* C6: on the mock backend ping and deleteFile succeed, every write is
\* accepted, every read returns the empty byte sequence, written keys
\* included, and nothing is ever stored.
C6_MockInvariant ==
    /\ \A r \in Requests : r.storage = "mock" =>
          /\ r.route \in {"ping", "deleteFile"} => r.pc = "responded" /\ r.error = ""
          /\ (IsShorten(r) /\ r.pc = "responded") => r.upload.status = "discarded"
          /\ r.upload.status \in {"none", "discarded"}
          /\ (IsExpand(r) /\ r.reads = 1 /\ Settled(r)) =>
                r.pc = "responded" /\ r.error = "" /\ r.body = <<>>
    /\ (\E r \in Requests : r.storage = "mock") => bucket = {} /\ storeLog = <<>>

\* C6 witness: a key written through the mock sink has been deleted and read.
C6_Witness ==
    \E q \in Requests, d \in Requests, e \in Requests :
        /\ IsShorten(q) /\ q.storage = "mock" /\ q.upload.status = "discarded"
        /\ d.route = "deleteFile" /\ d.storage = "mock" /\ d.input = q.upload.key
        /\ IsExpand(e) /\ e.pc = "responded" /\ e.token = q.token
        /\ q.input \in e.after

\* The inline credential text a googleAuthJson value stands for: the text after
\* the base64 marker decoded, any other text as it is.
InlineText(json) ==
    IF json = Base64Prefix \o << "e","3","0","=" >> THEN << "{", "}" >>
    ELSE IF json = Base64Prefix \o << "e","w","=","=" >> THEN << "{" >>
    ELSE json

\* C7 (as claimed): create returns the mock iff the file path is MOCKED;
\* otherwise an empty bucket name throws before a client is built; otherwise
\* it returns a real backend, with the inline JSON (base64-decoded when
\* prefixed) as credentials whenever googleAuthJson is not empty and with the
\* credentials file only when it is.
C7_CreateDecision ==
    \A r \in Requests : r.storage # "none" =>
        IF config.googleAuthenticationFilePath = "MOCKED"
        THEN r.storage = "mock" /\ r.credentials = NoCredentials
        ELSE IF config.gcsBucket = ""
        THEN /\ r.storage = "throw" /\ r.credentials = NoCredentials
             /\ r.error = "The bucket name should not be empty"
        ELSE /\ r.storage = "real"
             /\ r.credentials =
                   IF config.googleAuthJson # <<>>
                   THEN [from |-> "credentials",
                         value |-> InlineText(config.googleAuthJson)]
                   ELSE [from |-> "keyFilename", value |-> <<>>]

\* C7 (amended): as claimed, except that with a non-empty googleAuthJson the
\* real backend is returned only when the inline text parses as JSON; when it
\* does not, create throws the parse error and builds no client. The file
\* path is never used with a non-empty googleAuthJson.
C7_CreateDecisionParsed ==
    \A r \in Requests : r.storage # "none" =>
        IF config.googleAuthenticationFilePath = "MOCKED"
        THEN r.storage = "mock" /\ r.credentials = NoCredentials
        ELSE IF config.gcsBucket = ""
        THEN /\ r.storage = "throw" /\ r.credentials = NoCredentials
             /\ r.error = "The bucket name should not be empty"
        ELSE IF config.googleAuthJson = <<>>
        THEN /\ r.storage = "real"
             /\ r.credentials = [from |-> "keyFilename", value |-> <<>>]
        ELSE IF InlineText(config.googleAuthJson) = << "{", "}" >>
        THEN /\ r.storage = "real"
             /\ r.credentials = [from |-> "credentials", value |-> << "{", "}" >>]
        ELSE /\ r.storage = "throw" /\ r.credentials = NoCredentials
             /\ r.error = "SyntaxError"

\* C7 witness: a request served by a real backend built from base64 inline
\* credentials although a credentials file path is configured too.
C7_Witness ==
    \E r \in Requests :
        /\ r.storage = "real"
        /\ StartsWith(config.googleAuthJson, Base64Prefix)
        /\ config.googleAuthenticationFilePath = "key.json"
        /\ r.credentials.from = "credentials"

\* C8: every token shorten has drawn is 39 characters long, and an expand of
\* a short URL that shorten has returned is never rejected for its length.
C8_TokenLength ==
    /\ \A q \in Requests : (IsShorten(q) /\ q.pc = "responded") =>
          /\ Len(q.token) = 39
          /\ FinalSegmentLen(q.body) = 39
    /\ \A e \in Requests : (IsExpand(e) /\ e.after # {}) =>
          e.error # "Invalid URL" /\ e.reads = 1

\* C8 witness: an expand of a returned short URL has passed the length check.
C8_Witness ==
    \E q \in Requests, e \in Requests :
        /\ IsShorten(q) /\ q.pc = "responded" /\ q.token = TokenOf[1]
        /\ IsExpand(e) /\ e.input = q.body /\ q.input \in e.after
        /\ e.reads = 1

\* The commits and deletions of one object, in the order applied.
EventsOf(key) == SelectSeq(storeLog, LAMBDA ev : ev.key = key)

\* C9: shortens that draw the same token all return the same short URL
\* without error; the object holds the content of the write committed last
\* (nothing after a later deletion); and an expand on the real backend
\* returns what the latest commit before its read wrote.
C9_LastWriteWins ==
    /\ \A q1 \in Requests, q2 \in Requests :
          (IsShorten(q1) /\ IsShorten(q2) /\ q1.token # <<>> /\ q1.token = q2.token) =>
              /\ q1.pc = "responded" /\ q2.pc = "responded"
              /\ q1.error = "" /\ q2.error = ""
              /\ q1.body = q2.body
    /\ \A key \in {ev.key : ev \in {storeLog[i] : i \in 1..Len(storeLog)}} \cup Keys :
          LET evs == EventsOf(key)
          IN  IF evs # <<>> /\ evs[Len(evs)].op = "commit"
              THEN Stored(bucket, key) /\ ContentOf(bucket, key) = evs[Len(evs)].content
              ELSE ~Stored(bucket, key)
    /\ \A e \in Requests : (IsExpand(e) /\ e.storage = "real" /\ Settled(e) /\ e.reads = 1) =>
          LET evs == EventsOf(FileName(e.token))
          IN  IF e.epoch > 0 /\ evs[e.epoch].op = "commit"
              THEN e.pc = "responded" /\ e.body = evs[e.epoch].content
              ELSE e.pc = "failed" /\ e.error = "NotFound"

\* C9 witness: two shortens drew one token for different long URLs, both
\* writes committed, and a later expand returned the second one.
C9_Witness ==
    \E q1 \in Requests, q2 \in Requests, e \in Requests :
        /\ IsShorten(q1) /\ IsShorten(q2) /\ q1.token = q2.token
        /\ q1.input # q2.input
        /\ q1.upload.status = "committed" /\ q2.upload.status = "committed"
        /\ IsExpand(e) /\ e.token = q1.token /\ e.pc = "responded" /\ e.epoch = 2
        /\ EventsOf(q1.upload.key)[1].content = q1.input
        /\ e.body = q2.input

\* Some expand takes a step: it enters through a route or its read settles.
ExpandStep ==
    \/ \E shortUrl \in PostExpandInputs : PostExpand(shortUrl)
    \/ \E url \in GetSInputs : GetS(url)
    \/ \E r \in Requests : ExpandResume(r)

\* C10: no step of an expand changes the bucket, its history or any upload;
\* and two expands of one token on one backend between whose reads no commit
\* or deletion of the object was applied have the same result.
C10_ExpandReadOnly ==
    /\ [][ExpandStep => (bucket' = bucket /\ storeLog' = storeLog /\ Written' = Written)]_vars
    /\ [](\A e1 \in Requests, e2 \in Requests :
            (IsExpand(e1) /\ IsExpand(e2) /\ Settled(e1) /\ Settled(e2)
               /\ e1.reads = 1 /\ e2.reads = 1
               /\ e1.token = e2.token /\ e1.epoch = e2.epoch) =>
                (e1.pc = e2.pc /\ e1.body = e2.body /\ e1.error = e2.error))

\* C10 witness: two expands of a committed token read it one after the other
\* and got the same long URL, and the object is still there.
C10_Witness ==
    \E q \in Requests, e1 \in Requests, e2 \in Requests :
        /\ IsShorten(q) /\ q.upload.status = "committed"
        /\ IsExpand(e1) /\ IsExpand(e2) /\ e1.route # e2.route
        /\ e1.pc = "responded" /\ e2.pc = "responded"
        /\ e1.token = q.token /\ e2.token = q.token
        /\ e1.body = q.input /\ e2.body = q.input
        /\ Stored(bucket, q.upload.key)

====
